---- MODULE Spec2Model ----
(***************************************************************************)
(* One-way periodic mirroring of a source directory tree onto a replica    *)
(* directory tree (src/Synchronizer.py): compute_md5, sync_folders and the *)
(* loop of main, over a small file system.                                 *)
(***************************************************************************)
EXTENDS Integers, Sequences, FiniteSets, TLC

\* Number of distinct non-empty file contents the file system may hold.
MaxContent == 1

\* Largest number of source files that cannot be opened for reading, and of
\* replica paths on which a modification is refused, at any one time.
MaxFaults == 1

(***************************************************************************)
(* The file system: two roots, and under each the same small set of        *)
(* relative paths.  A relative path is a sequence of names; <<>> is the    *)
(* root directory itself.                                                  *)
(***************************************************************************)
Source == "source"

Replica == "replica"

Roots == {Source, Replica}

RootPath == <<>>

Paths == {<<"a">>, <<"b">>, <<"a", "a">>}

AllPaths == {RootPath} \cup Paths

Parent(p) == SubSeq(p, 1, Len(p) - 1)

Children(p) == {q \in Paths : Len(q) = Len(p) + 1 /\ Parent(q) = p}

\* A directory may stand only where the path set has room for entries in it.
DirCapable(p) == Children(p) # {}

\* File contents: the sequence of chunks f.read(4096) yields, each chunk
\* standing for up to 4096 bytes.
Contents == {<<>>} \cup {<<c>> : c \in 1..MaxContent}

Absent == [kind |-> "absent", data |-> <<>>]

DirNode == [kind |-> "dir", data |-> <<>>]

FileNode(c) == [kind |-> "file", data |-> c]

NodesAt(p) ==
    {Absent} \cup {FileNode(c) : c \in Contents}
             \cup (IF DirCapable(p) THEN {DirNode} ELSE {})

\* A tree: every entry that is present lies in a directory that is present.
IsTree(t) ==
    \A p \in Paths : t[p].kind # "absent" => t[Parent(p)].kind = "dir"

Trees ==
    {t \in [AllPaths -> {Absent, DirNode} \cup {FileNode(c) : c \in Contents}] :
        /\ t[RootPath] \in {Absent, DirNode}
        /\ \A p \in Paths : t[p] \in NodesAt(p)
        /\ IsTree(t)}

\* os.path.join(root, relative_path): an absolute path.
Join(r, p) == [root |-> r, rel |-> p]

Node(f, ap) == f[ap.root][ap.rel]

\* os.path.exists
Exists(f, ap) == Node(f, ap).kind # "absent"

ParentOf(ap) == Join(ap.root, Parent(ap.rel))

Put(f, ap, n) == [f EXCEPT ![ap.root][ap.rel] = n]

VARIABLES
    fs,             \* [Roots -> [AllPaths -> node]]: the file system
    srcUnreadable,  \* source files whose open for reading is refused
    repDenied,      \* replica paths whose creation, writing or removal is refused
    pc,             \* where main is: "root", "A", "B", "done", "sleep", "crashed"
    stack,          \* os.walk's directories still to list, next first
    todoD,          \* directories of the current listing not yet handled
    todoF,          \* files of the current listing not yet handled
    log,            \* the log events of the current pass
    ops,            \* the entries the current pass has handled, and how
    fs0,            \* the file system when the current pass started
    prev,           \* what preceded the current pass: "other", "clean", "interrupted",
                    \* "repaired"
    retry,          \* the calls that failed in the pass before, while nothing changed since
    md5             \* one call of compute_md5 followed read by read

vars == <<fs, srcUnreadable, repDenied, pc, stack, todoD, todoF, log, ops, fs0, prev, retry, md5>>

(***************************************************************************)
(* compute_md5                                                             *)
(***************************************************************************)
\* hashlib.md5(): the hash of no bytes.
Md5New == 0

\* hash_md5.update(chunk): collision-free on the contents of this file system.
Md5Update(h, chunk) == h * 256 + chunk

\* No call of compute_md5 is being followed.
Md5Idle ==
    [exists |-> FALSE, data |-> <<>>, openFails |-> FALSE, failAt |-> 0,
     at |-> "idle", pos |-> 0, hash |-> Md5New, logged |-> "none", result |-> Md5New]

RECURSIVE Md5Fold(_, _)
Md5Fold(h, chunks) ==
    IF chunks = <<>> THEN h ELSE Md5Fold(Md5Update(h, Head(chunks)), Tail(chunks))

\* open(file_path, "rb") succeeds.
CanOpen(f, ap) ==
    /\ Node(f, ap).kind = "file"
    /\ ~(ap.root = Source /\ ap.rel \in srcUnreadable)

\* The digest compute_md5 returns, and whether it logged an error on the way.
ComputeMd5(f, ap) ==
    IF CanOpen(f, ap)
    THEN [digest |-> Md5Fold(Md5New, Node(f, ap).data), failed |-> FALSE]
    ELSE [digest |-> Md5New, failed |-> TRUE]

Info(msg, ap) == [level |-> "INFO", msg |-> msg, path |-> ap]

Error(msg, ap) == [level |-> "ERROR", msg |-> msg, path |-> ap]

Md5Log(r, ap) == IF r.failed THEN <<Error("md5", ap)>> ELSE <<>>

(***************************************************************************)
(* The file-system calls sync_folders makes.  Each yields the file system  *)
(* it leaves and whether it returned (ok) or raised.                       *)
(***************************************************************************)
Denied(ap) == ap.root = Replica /\ ap.rel \in repDenied

Ok(f) == [fs |-> f, ok |-> TRUE]

Raise(f) == [fs |-> f, ok |-> FALSE]

\* os.mkdir
Mkdir(f, ap) ==
    IF Exists(f, ap) THEN Raise(f)
    ELSE IF ap.rel # RootPath /\ Node(f, ParentOf(ap)).kind # "dir" THEN Raise(f)
    ELSE IF Denied(ap) THEN Raise(f)
    ELSE Ok(Put(f, ap, DirNode))

\* os.makedirs: the missing parents first, then the directory itself.
RECURSIVE Makedirs(_, _)
Makedirs(f, ap) ==
    IF ap.rel # RootPath /\ ~Exists(f, ParentOf(ap))
    THEN LET up == Makedirs(f, ParentOf(ap))
         IN  IF up.ok THEN Mkdir(up.fs, ap) ELSE up
    ELSE Mkdir(f, ap)

\* shutil.copy2(src, dst): into dst/basename(src) when dst is a directory; the
\* source is opened first, then the target is created or overwritten.
Copy2Target(f, src, dst) ==
    IF Node(f, dst).kind = "dir"
    THEN Join(dst.root, dst.rel \o <<src.rel[Len(src.rel)]>>)
    ELSE dst

CopyFileTo(f, src, dst) ==
    LET t == Copy2Target(f, src, dst)
    IN  IF ~CanOpen(f, src) THEN Raise(f)
        ELSE IF t.rel \notin Paths THEN Raise(f)
        ELSE IF Node(f, ParentOf(t)).kind # "dir" THEN Raise(f)
        ELSE IF Node(f, t).kind = "dir" THEN Raise(f)
        ELSE IF Denied(t) THEN Raise(f)
        ELSE Ok(Put(f, t, FileNode(Node(f, src).data)))

Copy2_Swapped(f, src, dst) == CopyFileTo(f, dst, src)

\* line 84: shutil.copy2(source_file, replica_file)
Copy2(f, src, dst) == CopyFileTo(f, src, dst)

\* os.remove
Remove(f, ap) ==
    IF Node(f, ap).kind # "file" THEN Raise(f)
    ELSE IF Denied(ap) THEN Raise(f)
    ELSE Ok(Put(f, ap, Absent))

\* shutil.rmtree: the entries of the directory first, then the directory; it
\* raises at the first entry it cannot remove and leaves the rest in place.
RECURSIVE RmEntries(_, _, _)
RECURSIVE Rmtree(_, _)
RmEntries(f, r, todo) ==
    IF todo = {} THEN Ok(f)
    ELSE LET q == CHOOSE x \in todo : TRUE
             one == IF f[r][q].kind = "dir" THEN Rmtree(f, Join(r, q))
                    ELSE Remove(f, Join(r, q))
         IN  IF one.ok THEN RmEntries(one.fs, r, todo \ {q}) ELSE one

Rmtree(f, ap) ==
    IF Node(f, ap).kind # "dir" THEN Raise(f)
    ELSE LET inside == RmEntries(f, ap.root,
                           {q \in Children(ap.rel) : f[ap.root][q].kind # "absent"})
         IN  IF ~inside.ok THEN inside
             ELSE IF Denied(ap) THEN Raise(inside.fs)
             ELSE Ok(Put(inside.fs, ap, Absent))

\* The entries shutil.rmtree tries to remove: all it removes, and the one at
\* which it raises.
RECURSIVE TriedIn(_, _, _)
RECURSIVE Tried(_, _)
TriedIn(f, r, todo) ==
    IF todo = {} THEN {}
    ELSE LET q == CHOOSE x \in todo : TRUE
             one == IF f[r][q].kind = "dir" THEN Rmtree(f, Join(r, q))
                    ELSE Remove(f, Join(r, q))
         IN  (IF f[r][q].kind = "dir" THEN Tried(f, Join(r, q)) ELSE {q})
             \cup (IF one.ok THEN TriedIn(one.fs, r, todo \ {q}) ELSE {})

Tried(f, ap) ==
    IF Node(f, ap).kind # "dir" THEN {ap.rel}
    ELSE LET kids == {q \in Children(ap.rel) : f[ap.root][q].kind # "absent"}
         IN  TriedIn(f, ap.root, kids)
             \cup (IF RmEntries(f, ap.root, kids).ok THEN {ap.rel} ELSE {})

RemoveTree_IgnoreErrors(f, ap) == Ok(Rmtree(f, ap).fs)

\* line 108: shutil.rmtree(replica_dir)
RemoveTree(f, ap) == Rmtree(f, ap)

(***************************************************************************)
(* os.walk: one listing (scandir) of a directory, in any order.            *)
(***************************************************************************)
Entries(f, r, p, kind) == {q \in Children(p) : f[r][q].kind = kind}

Orders(S) ==
    {s \in UNION {[1..n -> S] : n \in {Cardinality(S)}} :
        \A i, j \in 1..Len(s) : i # j => s[i] # s[j]}

(***************************************************************************)
(* What a pass records of itself (not program state): the entries it       *)
(* handled, in order, with the call made for each (op "none": no call),    *)
(* whether the call returned, for a file of Phase A what line 83 saw, and   *)
(* for a deletion the entries it tried to remove.                          *)
(***************************************************************************)
OpRec(phase, kind, op, p, ok, absent, sd, rd) ==
    [phase |-> phase, kind |-> kind, op |-> op, entry |-> p, ok |-> ok,
     absent |-> absent, sd |-> sd.digest, rd |-> rd.digest,
     degraded |-> ~absent /\ (sd.failed \/ rd.failed), tried |-> {}]

NoMd5 == [digest |-> Md5New, failed |-> FALSE]

Plain(phase, kind, op, p, ok) == OpRec(phase, kind, op, p, ok, TRUE, NoMd5, NoMd5)

Outcome_AlwaysInfo(done, failure, ap, ok) == Info(done, ap)

\* The log line after a call: lines 75/77, 85/87, 99/101, 109/111 and 58/60-63.
Outcome(done, failure, ap, ok) ==
    IF ok THEN Info(done, ap) ELSE Error(failure, ap)

Rest_Retry(todo, ok) == IF ok THEN Tail(todo) ELSE todo

Rest_Abort(todo, ok) == IF ok THEN Tail(todo) ELSE <<>>

\* The loop goes on with the next entry whether the call returned or raised:
\* each try/except (lines 73-77, 82-87, 97-101, 107-111) is inside its loop.
Rest(todo, ok) == Tail(todo)

Orphan_NeedsSourceRoot(f, p) ==
    Exists(f, Join(Source, RootPath)) /\ ~Exists(f, Join(Source, p))

Orphan_Inverted(f, p) == Exists(f, Join(Source, p))

Orphan_WrongRoot(f, p) == ~Exists(f, Join(Replica, p))

\* lines 96 and 106: the replica entry has no counterpart in the source.
Orphan(f, p) == ~Exists(f, Join(Source, p))

SourceFiles(f) == {p \in Paths : f[Source][p].kind = "file"}

FaultSets(S) == {x \in SUBSET S : Cardinality(x) <= MaxFaults}

Init ==
    /\ fs \in [Roots -> Trees]
    /\ srcUnreadable \in FaultSets(SourceFiles(fs))
    /\ repDenied \in FaultSets({p \in AllPaths : p = RootPath => ~Exists(fs, Join(Replica, p))})
    /\ pc = "root"
    /\ stack = <<>>
    /\ todoD = <<>>
    /\ todoF = <<>>
    /\ log = <<>>
    /\ ops = <<>>
    /\ fs0 = fs
    /\ prev = "other"
    /\ retry = {}
    /\ md5 = Md5Idle

env == <<srcUnreadable, repDenied>>

(***************************************************************************)
(* sync_folders, lines 55-64: the replica root.                            *)
(***************************************************************************)
NextPhase_PruneFirst(phase) ==
    CASE phase = "root" -> "B"
      [] phase = "B" -> "A"
      [] OTHER -> "done"

\* The statements of sync_folders in the order they stand: the root check
\* (lines 55-64), the loop over os.walk(source) (66-87), the loop over
\* os.walk(replica) (89-111), the return.
NextPhase(phase) ==
    CASE phase = "root" -> "A"
      [] phase = "A" -> "B"
      [] OTHER -> "done"

\* os.walk starts at the root it is given (lines 66 and 89).
WalkStart(phase) == IF phase \in {"A", "B"} THEN <<RootPath>> ELSE <<>>

RootFailure_Swallowed == "done"

\* What main does when os.makedirs(replica) raises: the error is raised again
\* (lines 61, 64) and nothing in main catches it.
RootFailure == "crashed"

CheckReplicaRoot ==
    /\ pc = "root"
    /\ LET rr == Join(Replica, RootPath)
           made == Makedirs(fs, rr)
       IN  IF Exists(fs, rr)
           THEN /\ pc' = NextPhase(pc)
                /\ stack' = WalkStart(NextPhase(pc))
                /\ UNCHANGED <<fs, log, ops>>
           ELSE /\ fs' = made.fs
                /\ ops' = Append(ops, Plain("root", "dir", "makedirs", RootPath, made.ok))
                /\ log' = Append(log, Outcome("Replica directory created",
                                              "Error creating directory", rr, made.ok))
                /\ IF made.ok
                   THEN /\ pc' = NextPhase(pc)
                        /\ stack' = WalkStart(NextPhase(pc))
                   ELSE /\ pc' = RootFailure
                        /\ stack' = <<>>
    /\ UNCHANGED <<env, todoD, todoF, fs0, prev, retry, md5>>

(***************************************************************************)
(* Phase A, lines 66-87.                                                   *)
(***************************************************************************)
\* for root, dirs, files in os.walk(source): the next directory, or the end
\* of the walk.  A directory that cannot be listed is passed over.
WalkSource ==
    /\ pc = "A" /\ todoD = <<>> /\ todoF = <<>>
    /\ IF stack = <<>>
       THEN /\ pc' = NextPhase(pc)
            /\ stack' = WalkStart(NextPhase(pc))
            /\ UNCHANGED <<todoD, todoF>>
       ELSE LET top == Head(stack)
            IN  IF fs[Source][top].kind = "dir"
                THEN \E ds \in Orders(Entries(fs, Source, top, "dir")) :
                     \E fl \in Orders(Entries(fs, Source, top, "file")) :
                        /\ todoD' = ds
                        /\ todoF' = fl
                        /\ stack' = ds \o Tail(stack)
                        /\ pc' = "A"
                ELSE /\ stack' = Tail(stack)
                     /\ UNCHANGED <<pc, todoD, todoF>>
    /\ UNCHANGED <<fs, env, log, ops, fs0, prev, retry, md5>>

\* lines 70-77
CreateDir ==
    /\ pc = "A" /\ todoD # <<>>
    /\ LET p == Head(todoD)
           rd == Join(Replica, p)
           made == Makedirs(fs, rd)
       IN  IF Exists(fs, rd)
           THEN /\ ops' = Append(ops, Plain("A", "dir", "none", p, TRUE))
                /\ todoD' = Rest(todoD, TRUE)
                /\ UNCHANGED <<fs, log>>
           ELSE /\ fs' = made.fs
                /\ ops' = Append(ops, Plain("A", "dir", "makedirs", p, made.ok))
                /\ log' = Append(log, Outcome("Directory created",
                                              "Error creating directory", rd, made.ok))
                /\ todoD' = Rest(todoD, made.ok)
    /\ UNCHANGED <<env, pc, stack, todoF, fs0, prev, retry, md5>>

DigestsDiffer_Never(sd, rd) == sd # sd

\* line 83, once the replica file is known to exist
DigestsDiffer(sd, rd) == sd # rd

ShouldCopy_Always(absent, sd, rd) == TRUE

\* line 83
ShouldCopy(absent, sd, rd) == absent \/ DigestsDiffer(sd, rd)

\* lines 79-87
SyncFile ==
    /\ pc = "A" /\ todoD = <<>> /\ todoF # <<>>
    /\ LET p == Head(todoF)
           sf == Join(Source, p)
           rf == Join(Replica, p)
           absent == ~Exists(fs, rf)
           sd == ComputeMd5(fs, sf)
           rd == ComputeMd5(fs, rf)
           seen == IF absent THEN <<>> ELSE Md5Log(sd, sf) \o Md5Log(rd, rf)
           copied == Copy2(fs, sf, rf)
       IN  IF ShouldCopy(absent, sd.digest, rd.digest)
           THEN /\ fs' = copied.fs
                /\ ops' = Append(ops, OpRec("A", "file", "copy2", p, copied.ok,
                                            absent, sd, rd))
                /\ log' = log \o seen \o
                          <<Outcome("Synchronizing", "Error synchronizing file",
                                    rf, copied.ok)>>
                /\ todoF' = Rest(todoF, copied.ok)
           ELSE /\ fs' = fs
                /\ ops' = Append(ops, OpRec("A", "file", "none", p, TRUE,
                                            absent, sd, rd))
                /\ log' = log \o seen
                /\ todoF' = Rest(todoF, TRUE)
    /\ UNCHANGED <<env, pc, stack, todoD, fs0, prev, retry, md5>>

(***************************************************************************)
(* Phase B, lines 89-111.                                                  *)
(***************************************************************************)
\* for root, dirs, files in os.walk(replica)
WalkReplica ==
    /\ pc = "B" /\ todoD = <<>> /\ todoF = <<>>
    /\ IF stack = <<>>
       THEN /\ pc' = NextPhase(pc)
            /\ stack' = WalkStart(NextPhase(pc))
            /\ UNCHANGED <<todoD, todoF>>
       ELSE LET top == Head(stack)
            IN  IF fs[Replica][top].kind = "dir"
                THEN \E ds \in Orders(Entries(fs, Replica, top, "dir")) :
                     \E fl \in Orders(Entries(fs, Replica, top, "file")) :
                        /\ todoD' = ds
                        /\ todoF' = fl
                        /\ stack' = ds \o Tail(stack)
                        /\ pc' = "B"
                ELSE /\ stack' = Tail(stack)
                     /\ UNCHANGED <<pc, todoD, todoF>>
    /\ UNCHANGED <<fs, env, log, ops, fs0, prev, retry, md5>>

\* lines 93-101
RemoveFile ==
    /\ pc = "B" /\ todoF # <<>>
    /\ LET p == Head(todoF)
           rf == Join(Replica, p)
           gone == Remove(fs, rf)
       IN  IF ~Orphan(fs, p)
           THEN /\ ops' = Append(ops, Plain("B", "file", "none", p, TRUE))
                /\ todoF' = Rest(todoF, TRUE)
                /\ UNCHANGED <<fs, log>>
           ELSE /\ fs' = gone.fs
                /\ ops' = Append(ops, [Plain("B", "file", "remove", p, gone.ok)
                                         EXCEPT !.tried = {p}])
                /\ log' = Append(log, Outcome("File removed",
                                              "Error removing file", rf, gone.ok))
                /\ todoF' = Rest(todoF, gone.ok)
    /\ UNCHANGED <<env, pc, stack, todoD, fs0, prev, retry, md5>>

\* lines 103-111
RemoveDir ==
    /\ pc = "B" /\ todoF = <<>> /\ todoD # <<>>
    /\ LET p == Head(todoD)
           rd == Join(Replica, p)
           gone == RemoveTree(fs, rd)
       IN  IF ~Orphan(fs, p)
           THEN /\ ops' = Append(ops, Plain("B", "dir", "none", p, TRUE))
                /\ todoD' = Rest(todoD, TRUE)
                /\ UNCHANGED <<fs, log>>
           ELSE /\ fs' = gone.fs
                /\ ops' = Append(ops, [Plain("B", "dir", "rmtree", p, gone.ok)
                                         EXCEPT !.tried = Tried(fs, rd)])
                /\ log' = Append(log, Outcome("Directory removed",
                                              "Error removing directory", rd, gone.ok))
                /\ todoD' = Rest(todoD, gone.ok)
    /\ UNCHANGED <<env, pc, stack, todoF, fs0, prev, retry, md5>>

(***************************************************************************)
(* main, lines 124-127, and what is outside the program.                   *)
(***************************************************************************)
\* The calls of the current pass that raised, each with its entry.
FailedCalls == {[op |-> ops[i].op, entry |-> ops[i].entry] : i \in {j \in 1..Len(ops) : ~ops[j].ok}}

NoErrorLogged == \A i \in 1..Len(log) : log[i].level = "INFO"

\* sync_folders has returned: line 126, then time.sleep.
Complete ==
    /\ pc = "done"
    /\ pc' = "sleep"
    /\ prev' = IF NoErrorLogged THEN "clean" ELSE "other"
    /\ log' = <<>>
    /\ ops' = <<>>
    /\ fs0' = fs
    /\ retry' = FailedCalls
    /\ UNCHANGED <<fs, env, stack, todoD, todoF, md5>>

\* the sleep ends: while True comes round to line 125.
LoopAgain_Return == "returned"

\* while True (line 124): after the sleep, sync_folders is called again.
LoopAgain == "root"

StartPass ==
    /\ pc = "sleep"
    /\ pc' = LoopAgain
    /\ UNCHANGED <<fs, env, stack, todoD, todoF, log, ops, fs0, prev, retry, md5>>

RECURSIVE Under(_, _)
Under(q, p) == q = p \/ (q # RootPath /\ Under(Parent(q), p))

\* Someone removes a file or a directory from the source between two passes.
EnvRemove ==
    /\ pc = "sleep"
    /\ \E p \in Paths :
        /\ fs[Source][p].kind # "absent"
        /\ fs' = [fs EXCEPT ![Source] =
                    [q \in AllPaths |-> IF Under(q, p) THEN Absent ELSE @[q]]]
        /\ srcUnreadable' = {q \in srcUnreadable : ~Under(q, p)}
    /\ fs0' = fs'
    /\ prev' = "other"
    /\ retry' = {}
    /\ UNCHANGED <<repDenied, pc, stack, todoD, todoF, log, ops, md5>>

\* Someone rewrites a source file between two passes.
EnvWrite ==
    /\ pc = "sleep"
    /\ \E p \in SourceFiles(fs) : \E c \in Contents \ {fs[Source][p].data} :
        fs' = Put(fs, Join(Source, p), FileNode(c))
    /\ fs0' = fs'
    /\ prev' = "other"
    /\ retry' = {}
    /\ UNCHANGED <<env, pc, stack, todoD, todoF, log, ops, md5>>

\* Someone removes the cause of the failures of the last pass between two
\* passes: every file can be read, every replica entry can be changed.
EnvRepair ==
    /\ pc = "sleep"
    /\ retry # {}
    /\ srcUnreadable \cup repDenied # {}
    /\ srcUnreadable' = {}
    /\ repDenied' = {}
    /\ prev' = "repaired"
    /\ UNCHANGED <<fs, pc, stack, todoD, todoF, log, ops, fs0, retry, md5>>

\* The process is stopped in the middle of a pass, after one of the pass's
\* file-system calls, and started again.
Interrupt ==
    /\ pc \in {"A", "B"}
    /\ \E i \in 1..Len(ops) : ops[i].op # "none"
    /\ pc' = "root"
    /\ stack' = <<>>
    /\ todoD' = <<>>
    /\ todoF' = <<>>
    /\ log' = <<>>
    /\ ops' = <<>>
    /\ fs0' = fs
    /\ prev' = "interrupted"
    /\ retry' = {}
    /\ UNCHANGED <<fs, env, md5>>

\* One step of sync_folders (lines 54-111).
SyncFolders ==
    \/ CheckReplicaRoot
    \/ WalkSource
    \/ CreateDir
    \/ SyncFile
    \/ WalkReplica
    \/ RemoveFile
    \/ RemoveDir

\* The process while nobody stops it: main's loop (lines 124-127) and what
\* happens to the source while it sleeps.
Run ==
    \/ SyncFolders
    \/ Complete
    \/ StartPass
    \/ EnvRemove
    \/ EnvWrite
    \/ EnvRepair

Next ==
    \/ Run
    \/ Interrupt

Spec == Init /\ [][Next]_vars

\* The process starts with at most MaxFaults faulty entries in all.
InitLive ==
    /\ Init
    /\ Cardinality(srcUnreadable) + Cardinality(repDenied) <= MaxFaults

\* The running process: a single thread that executes its next statement
\* (lines 54-111, 126) and a sleep that ends (line 127); nobody stops it.
LiveSpec ==
    /\ InitLive
    /\ [][Run]_vars
    /\ WF_vars(SyncFolders)
    /\ WF_vars(Complete)
    /\ WF_vars(StartPass)

(***************************************************************************)
(* compute_md5 (lines 41-51), read by read.  The file is a sequence of     *)
(* chunks (what each f.read(4096) returns); openFails: open raises         *)
(* although the file exists; failAt = k > 0: the k-th call of f.read       *)
(* raises, failAt = 0: no read raises.                                     *)
(***************************************************************************)
MaxChunks == 3

ChunkValues == {1, 2}

RECURSIVE SeqsUpTo(_)
SeqsUpTo(n) ==
    IF n = 0 THEN {<<>>}
    ELSE LET shorter == SeqsUpTo(n - 1)
         IN  shorter \cup {Append(s, c) : s \in {t \in shorter : Len(t) = n - 1},
                                          c \in ChunkValues}

Md5Call(exists, data, openFails, failAt) ==
    [Md5Idle EXCEPT !.exists = exists, !.data = data, !.openFails = openFails,
                    !.failAt = failAt, !.at = "open"]

\* hash_md5 = hashlib.md5(), about to open file_path.
InitMd5 ==
    /\ fs = [r \in Roots |-> [p \in AllPaths |-> Absent]]
    /\ srcUnreadable = {}
    /\ repDenied = {}
    /\ pc = "A"
    /\ stack = <<>>
    /\ todoD = <<>>
    /\ todoF = <<>>
    /\ log = <<>>
    /\ ops = <<>>
    /\ fs0 = fs
    /\ prev = "other"
    /\ retry = {}
    /\ \/ md5 = Md5Call(FALSE, <<>>, FALSE, 0)
       \/ \E d \in SeqsUpTo(MaxChunks) :
             \/ md5 = Md5Call(TRUE, d, TRUE, 0)
             \/ \E k \in 0..(Len(d) + 1) : md5 = Md5Call(TRUE, d, FALSE, k)

\* return hash_md5.hexdigest() (line 51), after the except clause if any.
Md5Return(m, logged) ==
    [m EXCEPT !.at = "returned", !.logged = logged, !.result = m.hash]

\* line 44: open(file_path, "rb"); lines 47-50: both except clauses log.
Md5Open ==
    /\ md5.at = "open"
    /\ md5' = IF ~md5.exists THEN Md5Return(md5, "not found")
              ELSE IF md5.openFails THEN Md5Return(md5, "error")
              ELSE [md5 EXCEPT !.at = "read"]
    /\ UNCHANGED <<fs, env, pc, stack, todoD, todoF, log, ops, fs0, prev, retry>>

\* lines 45-46: one f.read(4096): it raises, or yields the next chunk, which
\* is hashed, or yields b"" at the end of the file.
Md5Read ==
    /\ md5.at = "read"
    /\ md5' = IF md5.failAt = md5.pos + 1 THEN Md5Return(md5, "error")
              ELSE IF md5.pos = Len(md5.data) THEN Md5Return(md5, "none")
              ELSE [md5 EXCEPT !.pos = @ + 1,
                               !.hash = Md5Update(@, md5.data[md5.pos + 1])]
    /\ UNCHANGED <<fs, env, pc, stack, todoD, todoF, log, ops, fs0, prev, retry>>

NextMd5 ==
    \/ Md5Open
    \/ Md5Read

SpecMd5 == InitMd5 /\ [][NextMd5]_vars

TypeOK ==
    /\ \A r \in Roots : fs[r] \in Trees
    /\ srcUnreadable \subseteq SourceFiles(fs)
    /\ pc \in {"root", "A", "B", "done", "sleep", "crashed"}

(***************************************************************************)
(* Properties.                                                             *)
(***************************************************************************)
PassDone == pc = "done"

OpIndex == 1..Len(ops)

\* The replica holds, at every relative path, what the source holds there.
Mirrored(f) == \A p \in Paths : f[Replica][p] = f[Source][p]

\* Some entry is a file on one side and a directory on the other.
KindConflict(f) ==
    \E p \in Paths :
        /\ f[Source][p].kind # "absent"
        /\ f[Replica][p].kind # "absent"
        /\ f[Source][p].kind # f[Replica][p].kind

\* C1: after a pass that completes without any error, the replica holds
\* every directory and every file of the source, each file with the source's
\* content, and nothing else, whatever the replica held before.
C1_Convergence == PassDone /\ NoErrorLogged => Mirrored(fs)

\* C2: a pass that follows an error-free pass, with nothing changed in
\* between, creates, copies and deletes nothing and leaves the replica as
\* it found it.
C2_Idempotent ==
    PassDone /\ prev = "clean" =>
        /\ \A i \in OpIndex : ops[i].op = "none"
        /\ fs = fs0

C2_Witness ==
    /\ PassDone /\ prev = "clean"
    /\ \E i, j \in OpIndex : ops[i].phase = "A" /\ ops[j].phase = "B" /\ ops[j].kind = "file"

\* The tree t without the entry p and everything in it.
Without(t, p) == [q \in AllPaths |-> IF Under(q, p) THEN Absent ELSE t[q]]

\* The pass started from a replica that matched the source before p (and
\* what p contained) was removed from the source.
RemovedFromSource(p) ==
    /\ fs0[Replica][p].kind # "absent"
    /\ fs0[Source] = Without(fs0[Replica], p)

FailedAt(phase, p) ==
    \E i \in OpIndex : ops[i].phase = phase /\ ops[i].entry = p /\ ~ops[i].ok

\* C3: from a replica that matches the source, removing one file or one
\* directory from the source and running one pass leaves every other replica
\* path as it was and, unless the deletion of that path itself failed,
\* removes the path and everything in it from the replica.
C3_Deletion ==
    \A p \in Paths :
        PassDone /\ RemovedFromSource(p) =>
            /\ \A q \in Paths : ~Under(q, p) => fs[Replica][q] = fs0[Replica][q]
            /\ ~FailedAt("B", p) => \A q \in Paths : Under(q, p) => fs[Replica][q] = Absent

C3_Witness ==
    /\ PassDone
    /\ RemovedFromSource(<<"a">>)
    /\ fs0[Replica][<<"a", "a">>].kind = "file"
    /\ fs0[Replica][<<"b">>].kind = "file"
    /\ fs[Replica] = Without(fs0[Replica], <<"a">>)

\* The pass started from a replica that differed from the source in the
\* content of the file p and in nothing else.
ChangedInSource(p) ==
    /\ fs0[Source][p].kind = "file"
    /\ fs0[Replica][p].kind = "file"
    /\ fs0[Source][p].data # fs0[Replica][p].data
    /\ \A q \in AllPaths \ {p} : fs0[Source][q] = fs0[Replica][q]

\* C4: in Phase A a source file is copied exactly when its replica
\* counterpart is absent or the two digests differ; a file whose digests
\* match is left as it was; so a source file whose content was changed is
\* written over its replica counterpart by the next pass (when the source
\* file can be read and the replica file written).
C4_CopyDecision ==
    /\ \A i \in OpIndex :
          ops[i].phase = "A" /\ ops[i].kind = "file" =>
            /\ ops[i].op = "copy2" <=> (ops[i].absent \/ ops[i].sd # ops[i].rd)
            /\ ops[i].op = "none" => fs[Replica][ops[i].entry] = fs0[Replica][ops[i].entry]
    /\ \A p \in Paths :
          PassDone /\ ChangedInSource(p) /\ p \notin srcUnreadable /\ p \notin repDenied =>
            /\ fs[Replica][p] = fs[Source][p]
            /\ \E i \in OpIndex : ops[i].entry = p /\ ops[i].op = "copy2" /\ ops[i].ok

C4_Witness ==
    /\ PassDone
    /\ ChangedInSource(<<"a", "a">>)
    /\ fs[Replica][<<"a", "a">>] = fs[Source][<<"a", "a">>]
    /\ \E i \in OpIndex : ops[i].op = "none" /\ ops[i].kind = "file" /\ ops[i].phase = "A"

Visits(phase, p) == {i \in OpIndex : ops[i].phase = phase /\ ops[i].entry = p}

SomeFailure == \E i \in OpIndex : ops[i].phase \in {"A", "B"} /\ ~ops[i].ok

\* A call on the entry p failed in this pass, or its comparison was degraded.
Troubled(p) ==
    \E i \in OpIndex : ops[i].entry = p /\ (~ops[i].ok \/ ops[i].degraded)

\* C5: a failed directory creation, comparison, copy or deletion never ends
\* the pass: Phase A still handles every source entry once and Phase B every
\* entry the replica still holds; every entry on which no call failed ends as
\* a pass without failures leaves it (a source entry mirrored, unless the
\* replica held an entry of the other kind there; a replica entry without a
\* source counterpart removed); and an unreadable source file the replica
\* lacks is not gained by the replica.
C5_Isolation ==
    /\ SomeFailure => pc \in {"A", "B", "done"}
    /\ PassDone =>
        /\ \A p \in Paths :
              /\ fs[Source][p].kind # "absent" => Cardinality(Visits("A", p)) = 1
              /\ fs[Replica][p].kind # "absent" => Cardinality(Visits("B", p)) = 1
        /\ \A q \in Paths :
              /\ (/\ ~Troubled(q)
                  /\ fs[Source][q].kind # "absent"
                  /\ fs0[Replica][q].kind \in {"absent", fs[Source][q].kind})
                    => fs[Replica][q] = fs[Source][q]
              /\ ~Troubled(q) /\ fs[Source][q].kind = "absent"
                    => fs[Replica][q].kind = "absent"
              /\ q \in srcUnreadable /\ fs0[Replica][q].kind = "absent"
                    => fs[Replica][q].kind = "absent"

\* A source file could not be read and was not gained, a directory could not
\* be created, and another file was still copied after those failures.
C5_Witness ==
    /\ PassDone
    /\ \E i, j \in OpIndex :
          /\ i < j
          /\ ~ops[i].ok
          /\ ops[j].op = "copy2" /\ ops[j].ok
    /\ \E q \in srcUnreadable : fs0[Replica][q].kind = "absent" /\ fs[Replica][q].kind = "absent"

RootFailed == \E i \in OpIndex : ops[i].phase = "root" /\ ~ops[i].ok

\* C6: when the replica root does not exist and cannot be created, the pass
\* does nothing else (no entry is handled, the file system is as it was), main
\* ends with the error, and no pass is started afterwards.
C6_Fatal ==
    /\ [](RootFailed => pc = "crashed" /\ Len(ops) = 1 /\ fs = fs0)
    /\ [][pc = "crashed" => pc' = "crashed"]_vars

C6_Witness ==
    /\ pc = "crashed"
    /\ RootFailed
    /\ fs[Source][<<"a">>].kind # "absent"

\* C7: a complete error-free pass that follows an interrupted pass, over the
\* unchanged source, leaves the replica matching the source, whatever the
\* interrupted pass left behind.
C7_SelfHeal == PassDone /\ prev = "interrupted" /\ NoErrorLogged => Mirrored(fs)

\* C8: whenever a fingerprint of the Phase A comparison of a file is degraded
\* (compute_md5 failed on the source file or on the replica file), the pass
\* attempts to copy the file.
C8_DegradedCopies ==
    \A i \in OpIndex :
        ops[i].phase = "A" /\ ops[i].kind = "file" /\ ops[i].degraded
            => ops[i].op = "copy2"

DoneMsg(o) ==
    CASE o.op = "makedirs" /\ o.phase = "root" -> "Replica directory created"
      [] o.op = "makedirs" -> "Directory created"
      [] o.op = "copy2" -> "Synchronizing"
      [] o.op = "remove" -> "File removed"
      [] OTHER -> "Directory removed"

FailMsg(o) ==
    CASE o.op = "makedirs" -> "Error creating directory"
      [] o.op = "copy2" -> "Error synchronizing file"
      [] o.op = "remove" -> "Error removing file"
      [] OTHER -> "Error removing directory"

Logged(e) == Cardinality({k \in 1..Len(log) : log[k] = e})

Deletions(p) == {i \in OpIndex : ops[i].op \in {"remove", "rmtree"} /\ ops[i].entry = p}

\* C12 as stated: after a successful recursive deletion nothing at or under
\* the directory is handled or logged again, and no replica entry is the
\* target of more than one deletion attempt in a pass.
C12_Original ==
    /\ \A i, j \in OpIndex :
          i < j /\ ops[i].op = "rmtree" /\ ops[i].ok
              => ~Under(ops[j].entry, ops[i].entry)
    /\ \A p \in Paths : Cardinality({i \in OpIndex : p \in ops[i].tried}) <= 1

\* C12 (amended): once Phase B has recursively deleted a replica directory,
\* the pass handles no entry at or under it any more and logs nothing about
\* one, and no replica entry is the argument of more than one os.remove or
\* shutil.rmtree call in a pass (an entry a failed rmtree could not remove
\* is tried again on its own).
C12_NoDoubleProcessing ==
    /\ \A i, j \in OpIndex :
          i < j /\ ops[i].op = "rmtree" /\ ops[i].ok
              => ~Under(ops[j].entry, ops[i].entry)
    /\ \A i \in OpIndex : \A k, m \in 1..Len(log) :
          (/\ ops[i].op = "rmtree" /\ ops[i].ok
           /\ log[k] = Info("Directory removed", Join(Replica, ops[i].entry))
           /\ k < m)
              => ~Under(log[m].path.rel, ops[i].entry)
    /\ \A p \in Paths : Cardinality(Deletions(p)) <= 1

C12_Witness ==
    /\ PassDone
    /\ fs0[Replica][<<"a", "a">>].kind = "file"
    /\ \E i, j \in OpIndex :
          /\ i < j
          /\ ops[i].op = "remove" /\ ops[i].ok
          /\ ops[j].op = "rmtree" /\ ops[j].ok /\ ops[j].entry = <<"a">>
    /\ fs[Replica][<<"a", "a">>].kind = "absent"

\* C16: a replica file or directory disappears only in a step in which the
\* source holds nothing at the same relative path, so a replica entry whose
\* path the source holds is never deleted; the replica root is never deleted.
C16_DeletionSafety ==
    [][/\ \A p \in Paths :
             fs[Replica][p].kind # "absent" /\ fs'[Replica][p].kind = "absent"
                 => fs[Source][p].kind = "absent" /\ pc = "B"
       /\ fs[Replica][RootPath].kind = "dir" => fs'[Replica][RootPath].kind = "dir"]_vars

C16_Witness ==
    /\ PassDone
    /\ fs0[Source][<<"a">>].kind = "dir"
    /\ fs0[Source][<<"a", "a">>].kind = "absent"
    /\ fs0[Replica][<<"a", "a">>].kind = "file"
    /\ fs0[Replica][<<"b">>] = fs0[Source][<<"b">>]
    /\ fs0[Source][<<"b">>].kind = "file"
    /\ fs[Replica][<<"a", "a">>].kind = "absent"
    /\ fs[Replica][<<"a">>].kind = "dir"
    /\ fs[Replica][<<"b">>].kind = "file"
    /\ \E i \in OpIndex : ops[i].op = "remove" /\ ops[i].entry = <<"a", "a">> /\ ops[i].ok

\* The pass started with a source root that does not exist or lists nothing.
SourceEmpty == \A p \in Paths : fs0[Source][p].kind = "absent"

\* C18: when the source root does not exist or lists nothing, Phase A handles
\* no entry, makes no call and logs nothing, and Phase B leaves the replica
\* root a directory that holds nothing, a deletion that fails being the only
\* thing that keeps an entry (and the directories above it) in the replica.
C18_MissingSource ==
    SourceEmpty =>
        /\ \A i \in OpIndex : ops[i].phase # "A"
        /\ pc \in {"A", "B"} /\ (\A i \in OpIndex : ops[i].phase # "B")
              => \A p \in Paths : fs[Replica][p] = fs0[Replica][p]
        /\ PassDone =>
              /\ fs[Replica][RootPath].kind = "dir"
              /\ \A p \in Paths :
                    fs[Replica][p].kind # "absent"
                        => \E q \in Paths : Under(q, p) /\ FailedAt("B", q)

C18_Witness ==
    /\ PassDone
    /\ fs0[Source][RootPath].kind = "absent"
    /\ fs0[Replica][<<"a", "a">>].kind = "file"
    /\ fs0[Replica][<<"b">>].kind = "file"
    /\ \A p \in Paths : fs[Replica][p].kind = "absent"
    /\ fs[Replica][RootPath].kind = "dir"
    /\ NoErrorLogged

Rank(phase) == CASE phase = "root" -> 1 [] phase = "A" -> 2 [] phase = "B" -> 3 [] OTHER -> 4

Creates(o) == o.op \in {"makedirs", "copy2"}

Deletes(o) == o.op \in {"remove", "rmtree"}

\* C14: in a pass the replica-root check comes first, then Phase A, then
\* Phase B: the calls of a pass are recorded in that order, no os.remove or
\* shutil.rmtree precedes an os.makedirs or shutil.copy2, Phase A makes no
\* deletion and Phase B no creation or copy; and, step by step, a phase is
\* entered only from the one before it, a replica entry disappears only in
\* Phase B and is created or rewritten only in Phase A (the root in the root
\* check).
C14_PhaseOrdering ==
    /\ [](/\ \A i, j \in OpIndex : i < j => Rank(ops[i].phase) <= Rank(ops[j].phase)
          /\ \A i, j \in OpIndex : i < j /\ Deletes(ops[i]) => ~Creates(ops[j])
          /\ \A i \in OpIndex :
                /\ ops[i].phase = "root" => i = 1 /\ ops[i].entry = RootPath
                /\ ops[i].phase = "A" => ~Deletes(ops[i])
                /\ ops[i].phase = "B" => ~Creates(ops[i])
                /\ Rank(ops[i].phase) <= Rank(pc))
    /\ [][/\ pc' = "A" /\ pc # "A" => pc = "root"
          /\ pc' = "B" /\ pc # "B" => pc = "A"
          /\ pc' = "done" /\ pc # "done" => pc = "B"
          /\ \A p \in AllPaths :
                /\ fs[Replica][p].kind # "absent" /\ fs'[Replica][p].kind = "absent"
                      => pc = "B"
                /\ fs'[Replica][p].kind # "absent" /\ fs'[Replica][p] # fs[Replica][p]
                      => pc = (IF p = RootPath THEN "root" ELSE "A")]_vars

C14_Witness ==
    /\ PassDone
    /\ Len(ops) >= 3
    /\ ops[1].phase = "A" /\ ops[1].op = "makedirs" /\ ops[1].ok
    /\ \E i, j \in OpIndex :
          /\ i < j
          /\ ops[i].phase = "A" /\ ops[i].op = "copy2" /\ ops[i].ok
          /\ ops[j].phase = "B" /\ ops[j].op = "remove" /\ ops[j].ok

Running == pc \in {"root", "A", "B"}

\* C19: a pass makes finitely many calls (at most one per entry of either
\* tree in each phase, and the root check) and, once started, reaches the end
\* of Phase B or ends in the fatal replica-root error.
C19_Termination ==
    /\ [](Len(ops) <= 2 * Cardinality(Paths) + 1)
    /\ [](pc = "crashed" => RootFailed)
    /\ Running ~> (pc \in {"done", "crashed"})

C19_Witness ==
    /\ PassDone
    /\ \E i, j, k \in OpIndex :
          /\ i < j /\ j < k
          /\ ops[i].op = "makedirs" /\ ~ops[i].ok
          /\ ops[j].op = "copy2" /\ ~ops[j].ok
          /\ ops[k].op = "remove" /\ ops[k].ok

\* C15: passes never overlap and the loop goes on: a pass starts only from
\* the sleep that follows a completed pass, the sleep only from the end of a
\* pass, the loop is left only by the fatal replica-root error, and after
\* every completed pass another pass eventually starts.
C15_SerialLoop ==
    /\ [][/\ pc' = "root" /\ pc # "root" => pc = "sleep"
          /\ pc' = "sleep" /\ pc # "sleep" => pc = "done"
          /\ pc = "done" => pc' = "sleep"
          /\ pc = "sleep" => pc' \in {"sleep", "root"}]_vars
    /\ [](pc \notin {"root", "A", "B", "done", "sleep"} => pc = "crashed" /\ RootFailed)
    /\ PassDone ~> (pc = "root")

C15_Witness ==
    /\ pc = "root"
    /\ prev = "clean"
    /\ fs[Source][<<"b">>].kind = "file"
    /\ fs[Replica][<<"b">>] = fs[Source][<<"b">>]

\* One fixed enumeration order of a directory's entries.
Listed(S) == CHOOSE s \in Orders(S) : TRUE

\* sync_folders run with every directory enumerated in the order Listed: the
\* file system it leaves, as a function of the file system it starts from.
RECURSIVE MirrorDirs(_, _)
MirrorDirs(f, ds) ==
    IF ds = <<>> THEN f
    ELSE LET rd == Join(Replica, Head(ds))
         IN  MirrorDirs(IF Exists(f, rd) THEN f ELSE Makedirs(f, rd).fs, Tail(ds))

RECURSIVE MirrorFiles(_, _)
MirrorFiles(f, fl) ==
    IF fl = <<>> THEN f
    ELSE LET sf == Join(Source, Head(fl))
             rf == Join(Replica, Head(fl))
         IN  MirrorFiles(IF ShouldCopy(~Exists(f, rf), ComputeMd5(f, sf).digest,
                                       ComputeMd5(f, rf).digest)
                         THEN Copy2(f, sf, rf).fs
                         ELSE f,
                         Tail(fl))

RECURSIVE Mirror(_, _)
Mirror(f, stk) ==
    IF stk = <<>> THEN f
    ELSE IF f[Source][Head(stk)].kind # "dir" THEN Mirror(f, Tail(stk))
    ELSE LET ds == Listed(Entries(f, Source, Head(stk), "dir"))
             fl == Listed(Entries(f, Source, Head(stk), "file"))
         IN  Mirror(MirrorFiles(MirrorDirs(f, ds), fl), ds \o Tail(stk))

RECURSIVE PruneFiles(_, _)
PruneFiles(f, fl) ==
    IF fl = <<>> THEN f
    ELSE PruneFiles(IF Orphan(f, Head(fl)) THEN Remove(f, Join(Replica, Head(fl))).fs
                    ELSE f,
                    Tail(fl))

RECURSIVE PruneDirs(_, _)
PruneDirs(f, ds) ==
    IF ds = <<>> THEN f
    ELSE PruneDirs(IF Orphan(f, Head(ds)) THEN RemoveTree(f, Join(Replica, Head(ds))).fs
                   ELSE f,
                   Tail(ds))

RECURSIVE Prune(_, _)
Prune(f, stk) ==
    IF stk = <<>> THEN f
    ELSE IF f[Replica][Head(stk)].kind # "dir" THEN Prune(f, Tail(stk))
    ELSE LET ds == Listed(Entries(f, Replica, Head(stk), "dir"))
             fl == Listed(Entries(f, Replica, Head(stk), "file"))
         IN  Prune(PruneDirs(PruneFiles(f, fl), ds), ds \o Tail(stk))

RefPass(f) ==
    LET rr == Join(Replica, RootPath)
        g == IF Exists(f, rr) THEN f ELSE Makedirs(f, rr).fs
    IN  Prune(Mirror(g, <<RootPath>>), <<RootPath>>)

Md5Returned == md5.at = "returned"

\* C13: compute_md5 always returns (it raises nothing), changes no file, and
\* when the file does not exist or cannot be read, a read that fails after
\* some chunks were read included, what it returns is the digest of zero
\* bytes.
C13_FingerprintFailure ==
    /\ md5.at \in {"idle", "open", "read", "returned"}
    /\ Md5Returned /\ md5.logged # "none" => md5.result = Md5New
    /\ Md5Returned /\ md5.logged = "none" => md5.result = Md5Fold(Md5New, md5.data)

\* The calls of Phase A and Phase B that raised in the current pass.
FailedOps == {i \in OpIndex : ~ops[i].ok /\ ops[i].phase \in {"A", "B"}}

\* C11: an entry on which a creation, copy or deletion failed is, at the end
\* of the pass, what it was at its start; while nothing changes, the next
\* pass makes the same call on that entry again; and once the causes of the
\* failures are removed, one further pass (one in which no call fails any
\* more) leaves the replica matching the source.
C11_RetryAfterError ==
    /\ PassDone =>
          \A i \in FailedOps : fs[Replica][ops[i].entry] = fs0[Replica][ops[i].entry]
    /\ PassDone /\ prev # "repaired" =>
          \A r \in retry : \E i \in FailedOps : ops[i].op = r.op /\ ops[i].entry = r.entry
    /\ PassDone /\ prev = "repaired" /\ NoErrorLogged => Mirrored(fs)

=============================================================================
